---- MODULE Spec2Model ----
(***************************************************************************)
(* Model of the modern-ecommerce-server HTTP entry points.                 *)
(*                                                                         *)
(* The source defines two Express apps: the "auth" server (mounts          *)
(* /api/auth, has no /webhook route) and the "stripe" server (has the      *)
(* /webhook route, mounts no auth routes).  A process runs one of them     *)
(* under one NODE_ENV.  A request walks the middleware stack of its app:   *)
(* pc is the layer that runs next, stack the layers behind it.             *)
(***************************************************************************)
EXTENDS Integers, Sequences, FiniteSets, TLC

VARIABLES server, nodeEnv, pc, stack, req, body, parsed, err, sent, calls,
          visited, logs

vars == <<server, nodeEnv, pc, stack, req, body, parsed, err, sent, calls,
          visited, logs>>

----------------------------------------------------------------------------
(* Bounds of the model *)

\* Amounts are fixed-point numbers, Scale units to one minor currency unit.
Scale == 4

\* Amounts within AmountSpread units on either side of the minimum are drawn.
AmountSpread == 6

----------------------------------------------------------------------------
(* JavaScript values of the request body *)

JUndefined == [k |-> "undefined", q |-> 0]
JNull == [k |-> "null", q |-> 0]
JEmptyStr == [k |-> "emptystring", q |-> 0]
JNaNStr == [k |-> "nanstring", q |-> 0]
JInfinity == [k |-> "infinity", q |-> 0]
JNum(q) == [k |-> "number", q |-> q]
JNumStr(q) == [k |-> "numstring", q |-> q]

\* Mutant of Truthy: only a missing amount counts as not given
TruthyOnlyDefined(v) == v.k # "undefined"

\* !v is false
Truthy(v) ==
  CASE v.k = "number" -> v.q # 0
    [] v.k \in {"numstring", "nanstring", "infinity"} -> TRUE
    [] OTHER -> FALSE

\* ToNumber(v), as the relational operators and Math.round apply it
ToNumber(v) ==
  CASE v.k \in {"number", "numstring"} -> [k |-> "finite", q |-> v.q]
    [] v.k \in {"null", "emptystring"} -> [k |-> "finite", q |-> 0]
    [] v.k = "infinity" -> [k |-> "Infinity", q |-> 0]
    [] OTHER -> [k |-> "NaN", q |-> 0]

\* v < n for a number literal n
LessThan(v, n) ==
  LET x == ToNumber(v) IN x.k = "finite" /\ x.q < n * Scale

\* Math.round(v): the nearest integer, halves rounded up
MathRound(v) ==
  LET x == ToNumber(v) IN
  IF x.k = "finite"
    THEN [k |-> "finite", q |-> ((2 * x.q + Scale) \div (2 * Scale)) * Scale]
    ELSE x

\* Strings the code converts are sequences of characters.
LowerChar(c) ==
  CASE c = "U" -> "u" [] c = "S" -> "s" [] c = "D" -> "d"
    [] c = "E" -> "e" [] c = "R" -> "r"
    [] OTHER -> c

\* String.prototype.toLowerCase
ToLowerCase(s) == [i \in 1..Len(s) |-> LowerChar(s[i])]

CUndefined == [k |-> "undefined", s |-> <<>>]
CNull == [k |-> "null", s |-> <<>>]
CNumber == [k |-> "number", s |-> <<>>]
CStr(s) == [k |-> "string", s |-> s]

----------------------------------------------------------------------------
(* Requests *)

MinAmount == 50

AmountQs ==
  {MinAmount * Scale + d : d \in (0 - AmountSpread)..AmountSpread}
    \cup {0, 0 - Scale, 100 * Scale}

Amounts ==
  {JUndefined, JNull, JEmptyStr, JNaNStr, JInfinity}
    \cup {JNum(q) : q \in AmountQs}
    \cup {JNumStr(q) : q \in {49 * Scale, 100 * Scale}}

Currencies ==
  {CUndefined, CNull, CNumber, CStr(<<"u", "s", "d">>), CStr(<<"U", "S", "D">>),
   CStr(<<"E", "u", "r">>)}

\* metadata: undefined, or an object given as its set of <<key, value>> entries
NoMetadata == [k |-> "undefined", entries |-> {}]
Metadatas ==
  {NoMetadata, [k |-> "object", entries |-> {<<"order", "42">>}],
   [k |-> "object", entries |-> {<<"source", "client">>}]}

Methods == {"GET", "POST"}
\* Paths are sequences of segments: <<>> is "/", <<"api", "auth", "me">> is
\* "/api/auth/me".
Paths == {<<>>, <<"create-payment-intent">>, <<"webhook">>, <<"api", "auth", "signup">>,
          <<"api", "auth", "signin">>, <<"api", "auth", "me">>, <<"unknown">>}
EventTypes == {"payment_intent.succeeded", "payment_intent.payment_failed",
               "payment_method.attached", "charge.refunded"}

\* A request carrying no body of interest
Plain(m, p) ==
  [method |-> m, path |-> p, contentType |-> "none", syntax |-> "empty",
   amount |-> JUndefined, currency |-> CUndefined, metadata |-> NoMetadata,
   sig |-> "missing", eventType |-> "charge.refunded", credential |-> FALSE]

Requests ==
  {Plain(m, p) : m \in Methods, p \in Paths}
    \cup {[Plain(m, p) EXCEPT !.contentType = "application/json", !.syntax = "malformed"] :
            m \in {"POST"}, p \in Paths}
    \cup {[Plain("POST", p) EXCEPT !.contentType = "text/plain", !.syntax = "valid"] :
            p \in {<<"create-payment-intent">>, <<"webhook">>}}
    \cup {[Plain("POST", <<"create-payment-intent">>) EXCEPT
             !.contentType = "application/json", !.syntax = "valid",
             !.amount = a, !.currency = c, !.metadata = md] :
            a \in Amounts, c \in Currencies, md \in Metadatas}
    \cup {[Plain("POST", <<"webhook">>) EXCEPT
             !.contentType = ct, !.syntax = "valid", !.sig = s, !.eventType = t] :
            ct \in {"application/json", "text/plain"},
            s \in {"valid", "invalid", "missing"}, t \in EventTypes}
    \cup {[Plain("GET", <<"api", "auth", "me">>) EXCEPT !.credential = TRUE]}

NoReq == Plain("GET", <<>>)

\* req.body before any body parser ran
NoBody ==
  [kind |-> "unset", amount |-> JUndefined, currency |-> CUndefined,
   metadata |-> NoMetadata, eventType |-> "none"]

NoErr == [type |-> "none", message |-> "none"]

\* res.status(status).json(body) / res.status(status).send(body)
Response(status, b) == [status |-> status, body |-> b]

----------------------------------------------------------------------------
(* Routing *)

\* Mutant of AuthRouter: /me registered without the guard
AuthRouterUnguarded ==
  << [method |-> "POST", path |-> <<"signup">>, chain |-> <<"signup">>],
     [method |-> "POST", path |-> <<"signin">>, chain |-> <<"signin">>],
     [method |-> "GET", path |-> <<"me">>, chain |-> <<"getMe">>] >>

\* router of routes/authRoutes.js
AuthRouter ==
  << [method |-> "POST", path |-> <<"signup">>, chain |-> <<"signup">>],
     [method |-> "POST", path |-> <<"signin">>, chain |-> <<"signin">>],
     [method |-> "GET", path |-> <<"me">>, chain |-> <<"protect", "getMe">>] >>

\* app.use(prefix, router): the router's routes under the prefix
Mount(prefix, router) ==
  [i \in 1..Len(router) |-> [router[i] EXCEPT !.path = prefix \o router[i].path]]

\* The routes each app registers, in registration order
Routes(app) ==
  IF app = "auth"
    THEN Mount(<<"api", "auth">>, AuthRouter)
           \o << [method |-> "GET", path |-> <<>>, chain |-> <<"health">>],
                 [method |-> "POST", path |-> <<"create-payment-intent">>,
                  chain |-> <<"createPaymentIntent">>] >>
    ELSE << [method |-> "GET", path |-> <<>>, chain |-> <<"health">>],
            [method |-> "POST", path |-> <<"create-payment-intent">>,
             chain |-> <<"createPaymentIntent">>],
            [method |-> "POST", path |-> <<"webhook">>,
             chain |-> <<"expressRaw", "webhook">>] >>

Matches(app, m, p) ==
  {i \in 1..Len(Routes(app)) : Routes(app)[i].method = m /\ Routes(app)[i].path = p}

\* The handlers a request runs after the global middleware
RouteChain(app, m, p) ==
  IF Matches(app, m, p) = {}
    THEN <<"notFound">>
    ELSE Routes(app)[CHOOSE i \in Matches(app, m, p) :
                       \A j \in Matches(app, m, p) : i <= j].chain

\* availableEndpoints of each app's 404 handler
AvailableEndpoints(app) ==
  IF app = "auth"
    THEN << <<"GET", <<>> >>, <<"POST", <<"create-payment-intent">> >>,
            <<"POST", <<"webhook">> >>, <<"POST", <<"api", "auth", "signup">> >>,
            <<"POST", <<"api", "auth", "signin">> >>, <<"GET", <<"api", "auth", "me">> >> >>
    ELSE << <<"GET", <<>> >>, <<"POST", <<"create-payment-intent">> >>,
            <<"POST", <<"webhook">> >> >>

----------------------------------------------------------------------------
(* Initial state: a process runs one app under one NODE_ENV *)

Servers == {"auth", "stripe"}
NodeEnvs == {"development", "production", "test", "unset"}

Init ==
  /\ server \in Servers
  /\ nodeEnv \in NodeEnvs
  /\ pc = "idle"
  /\ stack = <<>>
  /\ req = NoReq
  /\ body = NoBody
  /\ parsed = FALSE
  /\ err = NoErr
  /\ sent = <<>>
  /\ calls = <<>>
  /\ visited = <<>>
  /\ logs = <<>>

\* next(): control passes to the layer behind
PassOn ==
  /\ pc' = Head(stack)
  /\ stack' = Tail(stack)

\* the layer answers and the chain ends
Finish ==
  /\ pc' = "done"
  /\ stack' = <<>>

\* A request arrives; the app's layers are the global middleware and the
\* chain of the first route that matches.
Receive ==
  /\ pc = "idle"
  /\ \E r \in Requests :
       /\ req' = r
       /\ stack' = <<"expressJson">> \o RouteChain(server, r.method, r.path)
  /\ pc' = "cors"
  /\ UNCHANGED <<server, nodeEnv, body, parsed, err, sent, calls, visited, logs>>

\* The answered request leaves the process; nothing of it is kept.
Complete ==
  /\ pc = "done"
  /\ pc' = "idle"
  /\ stack' = <<>>
  /\ req' = NoReq
  /\ body' = NoBody
  /\ parsed' = FALSE
  /\ err' = NoErr
  /\ sent' = <<>>
  /\ calls' = <<>>
  /\ visited' = <<>>
  /\ logs' = <<>>
  /\ UNCHANGED <<server, nodeEnv>>

\* cors(): GET and POST requests pass on
Cors ==
  /\ pc = "cors"
  /\ PassOn
  /\ visited' = Append(visited, "cors")
  /\ UNCHANGED <<server, nodeEnv, req, body, parsed, err, sent, calls, logs>>

----------------------------------------------------------------------------
(* Body parsers *)

\* express.json(): leaves req.body an empty object unless the request has a
\* body of type application/json, which it parses; a body that does not
\* parse goes to next(err).
JsonParse(r, b, done) ==
  LET empty == [NoBody EXCEPT !.kind = "object"]
      cur == IF b.kind = "unset" THEN empty ELSE b
  IN
  IF done
    THEN [body |-> b, parsed |-> done, err |-> NoErr]
    ELSE IF r.syntax = "empty" \/ r.contentType # "application/json"
      THEN [body |-> cur, parsed |-> FALSE, err |-> NoErr]
      ELSE IF r.syntax = "malformed"
        THEN [body |-> cur, parsed |-> FALSE,
              err |-> [type |-> "entity.parse.failed",
                       message |-> "Unexpected token in JSON"]]
        ELSE [body |-> [kind |-> "object", amount |-> r.amount, currency |-> r.currency,
                        metadata |-> r.metadata, eventType |-> r.eventType],
              parsed |-> TRUE, err |-> NoErr]

\* express.raw({type: "application/json"}): skips a request whose body a
\* parser already consumed; otherwise req.body becomes the Buffer of the bytes.
RawParse(r, b, done) ==
  LET empty == [NoBody EXCEPT !.kind = "object"]
      cur == IF b.kind = "unset" THEN empty ELSE b
  IN
  IF done
    THEN [body |-> b, parsed |-> done, err |-> NoErr]
    ELSE IF r.syntax = "empty" \/ r.contentType # "application/json"
      THEN [body |-> cur, parsed |-> FALSE, err |-> NoErr]
      ELSE [body |-> [NoBody EXCEPT !.kind = "buffer", !.eventType = r.eventType],
            parsed |-> TRUE, err |-> NoErr]

\* next(err): Express skips to the error-handling middleware
PassError ==
  /\ pc' = "errorHandler"
  /\ stack' = <<>>

ExpressJson ==
  /\ pc = "expressJson"
  /\ LET out == JsonParse(req, body, parsed) IN
       /\ body' = out.body
       /\ parsed' = out.parsed
       /\ err' = out.err
       /\ IF out.err = NoErr THEN PassOn ELSE PassError
  /\ visited' = Append(visited, "expressJson")
  /\ UNCHANGED <<server, nodeEnv, req, sent, calls, logs>>

ExpressRaw ==
  /\ pc = "expressRaw"
  /\ LET out == RawParse(req, body, parsed) IN
       /\ body' = out.body
       /\ parsed' = out.parsed
       /\ err' = out.err
       /\ IF out.err = NoErr THEN PassOn ELSE PassError
  /\ visited' = Append(visited, "expressRaw")
  /\ UNCHANGED <<server, nodeEnv, req, sent, calls, logs>>

----------------------------------------------------------------------------
(* GET / *)

Health ==
  /\ pc = "health"
  /\ sent' = Append(sent, Response(200, [message |-> "running"]))
  /\ Finish
  /\ visited' = Append(visited, "health")
  /\ UNCHANGED <<server, nodeEnv, req, body, parsed, err, calls, logs>>

----------------------------------------------------------------------------
(* POST /create-payment-intent *)

AmountRequired == [error |-> "Amount is required"]
AmountTooSmall == [error |-> "Amount must be at least $0.50 (50 cents)"]

\* Mutant of Validate: the minimum is not checked
ValidateNoMinimum(amount) ==
  IF ~Truthy(amount)
    THEN [sends |-> <<Response(400, AmountRequired)>>, proceed |-> FALSE]
    ELSE [sends |-> <<>>, proceed |-> TRUE]

\* Mutant of Validate: the 400 branches answer without returning
ValidateNoReturn(amount) ==
  IF ~Truthy(amount)
    THEN [sends |-> <<Response(400, AmountRequired)>>, proceed |-> TRUE]
    ELSE IF LessThan(amount, MinAmount)
      THEN [sends |-> <<Response(400, AmountTooSmall)>>, proceed |-> TRUE]
      ELSE [sends |-> <<>>, proceed |-> TRUE]

\* The two validation steps: the responses they send, and whether control
\* goes on to the provider call.
Validate(amount) ==
  IF ~Truthy(amount)
    THEN [sends |-> <<Response(400, AmountRequired)>>, proceed |-> FALSE]
    ELSE IF LessThan(amount, MinAmount)
      THEN [sends |-> <<Response(400, AmountTooSmall)>>, proceed |-> FALSE]
      ELSE [sends |-> <<>>, proceed |-> TRUE]

TypeError == [type |-> "undefined", message |-> "currency.toLowerCase is not a function"]

NoParams ==
  [amount |-> [k |-> "NaN", q |-> 0], currency |-> <<>>, payment_method_types |-> <<>>,
   metadata |-> {}, description |-> "none"]

\* The argument of stripe.paymentIntents.create, or the exception thrown
\* while it is built.
BuildParams(b) ==
  LET currency == IF b.currency.k = "undefined" THEN CStr(<<"u", "s", "d">>) ELSE b.currency
      metadata == IF b.metadata.k = "undefined" THEN {} ELSE b.metadata.entries
  IN
  IF currency.k # "string"
    THEN [threw |-> TRUE, error |-> TypeError, params |-> NoParams]
    ELSE [threw |-> FALSE, error |-> NoErr,
          params |->
            [amount |-> MathRound(b.amount),
             currency |-> ToLowerCase(currency.s),
             payment_method_types |-> <<"card">>,
             metadata |-> {e \in metadata : e[1] \notin {"source", "created_at"}}
                            \cup {<<"source", "modern-ecommerce">>, <<"created_at", "now">>},
             description |-> "Modern E-commerce Purchase"]]

StripeErrorTypes ==
  {"StripeCardError", "StripeRateLimitError", "StripeInvalidRequestError",
   "StripeAPIError", "StripeConnectionError", "StripeAuthenticationError"}

\* What the provider call can reject with
StripeErrors ==
  {[type |-> t, message |-> m] :
     t \in StripeErrorTypes \cup {"StripePermissionError", "undefined"},
     m \in {"Your card was declined.", "Your card has insufficient funds."}}

\* What the provider call can resolve with
PaymentIntents ==
  {[id |-> "pi_1", client_secret |-> "pi_1_secret"],
   [id |-> "pi_2", client_secret |-> "pi_2_secret"]}

\* Mutant of CatchResponse: no branch for authentication errors
CatchResponseNoAuth(error) ==
  CASE error.type = "StripeCardError" -> Response(400, [error |-> error.message])
    [] error.type = "StripeRateLimitError" ->
         Response(429, [error |-> "Too many requests. Please try again later."])
    [] error.type = "StripeInvalidRequestError" ->
         Response(400, [error |-> "Invalid request parameters."])
    [] error.type \in {"StripeAPIError", "StripeConnectionError"} ->
         Response(500, [error |-> "Stripe API error. Please try again."])
    [] OTHER -> Response(500, [error |-> "An unexpected error occurred. Please try again."])

\* The catch block
CatchResponse(error) ==
  CASE error.type = "StripeCardError" -> Response(400, [error |-> error.message])
    [] error.type = "StripeRateLimitError" ->
         Response(429, [error |-> "Too many requests. Please try again later."])
    [] error.type = "StripeInvalidRequestError" ->
         Response(400, [error |-> "Invalid request parameters."])
    [] error.type = "StripeAPIError" ->
         Response(500, [error |-> "Stripe API error. Please try again."])
    [] error.type = "StripeConnectionError" ->
         Response(500, [error |-> "Network error. Please check your connection."])
    [] error.type = "StripeAuthenticationError" ->
         Response(401, [error |-> "Authentication error. Please check your API keys."])
    [] OTHER -> Response(500, [error |-> "An unexpected error occurred. Please try again."])

\* The handler up to the await: validation, then the provider call
CreatePaymentIntent ==
  /\ pc = "createPaymentIntent"
  /\ LET v == Validate(body.amount)
         p == BuildParams(body)
     IN
     IF ~v.proceed
       THEN /\ sent' = sent \o v.sends
            /\ Finish
            /\ UNCHANGED <<calls, err, logs>>
       ELSE IF p.threw
         THEN /\ sent' = (sent \o v.sends) \o <<CatchResponse(p.error)>>
              /\ err' = p.error
              /\ logs' = logs \o <<"Creating payment intent", "Stripe Error">>
              /\ Finish
              /\ UNCHANGED calls
         ELSE /\ calls' = Append(calls, p.params)
              /\ sent' = sent \o v.sends
              /\ logs' = Append(logs, "Creating payment intent")
              /\ pc' = "awaitStripe"
              /\ UNCHANGED <<stack, err>>
  /\ visited' = Append(visited, "createPaymentIntent")
  /\ UNCHANGED <<server, nodeEnv, req, body, parsed>>

\* The provider call resolves
StripeResolve ==
  /\ pc = "awaitStripe"
  /\ \E paymentIntent \in PaymentIntents :
       sent' = Append(sent, Response(200, [clientSecret |-> paymentIntent.client_secret,
                                            paymentIntentId |-> paymentIntent.id]))
  /\ logs' = Append(logs, "Payment intent created")
  /\ Finish
  /\ UNCHANGED <<server, nodeEnv, req, body, parsed, err, calls, visited>>

\* The provider call rejects
StripeReject ==
  /\ pc = "awaitStripe"
  /\ \E error \in StripeErrors :
       /\ err' = error
       /\ sent' = Append(sent, CatchResponse(error))
  /\ logs' = Append(logs, "Stripe Error")
  /\ Finish
  /\ UNCHANGED <<server, nodeEnv, req, body, parsed, calls, visited>>

----------------------------------------------------------------------------
(* POST /webhook *)

\* stripe.webhooks.constructEvent(req.body, sig, endpointSecret): the
\* signature is an HMAC over the bytes the provider sent, so only the raw
\* body with the matching signature header verifies.
ConstructEvent(payload, sig) ==
  IF payload.kind # "buffer"
    THEN [threw |-> TRUE, type |-> "none",
          message |-> "Webhook payload must be provided as a string or a Buffer"]
    ELSE IF sig = "missing"
      THEN [threw |-> TRUE, type |-> "none",
            message |-> "Unable to extract timestamp and signatures from header"]
      ELSE IF sig = "invalid"
        THEN [threw |-> TRUE, type |-> "none",
              message |-> "No signatures found matching the expected signature for payload"]
        ELSE [threw |-> FALSE, type |-> payload.eventType, message |-> "none"]

\* The switch on event.type: the line it logs
Dispatch(type) ==
  CASE type = "payment_intent.succeeded" -> "Payment succeeded"
    [] type = "payment_intent.payment_failed" -> "Payment failed"
    [] type = "payment_method.attached" -> "Payment method attached"
    [] OTHER -> "Unhandled event type"

\* The webhook handler: the response it sends and the lines it logs
WebhookResult(payload, sig) ==
  LET event == ConstructEvent(payload, sig) IN
  IF event.threw
    THEN [send |-> Response(400, [text |-> <<"Webhook Error: ", event.message>>]),
          logs |-> <<"Webhook signature verification failed">>]
    ELSE [send |-> Response(200, [received |-> TRUE]),
          logs |-> <<"Webhook received", Dispatch(event.type)>>]

Webhook ==
  /\ pc = "webhook"
  /\ LET out == WebhookResult(body, req.sig) IN
       /\ sent' = Append(sent, out.send)
       /\ logs' = logs \o out.logs
  /\ Finish
  /\ visited' = Append(visited, "webhook")
  /\ UNCHANGED <<server, nodeEnv, req, body, parsed, err, calls>>

----------------------------------------------------------------------------
(* /api/auth: the guard and the controllers *)

\* protect: passes a request with a valid credential on, answers any other
ProtectPasses(r) == r.credential

Protect ==
  /\ pc = "protect"
  /\ IF ProtectPasses(req)
       THEN PassOn /\ UNCHANGED sent
       ELSE /\ sent' = Append(sent, Response(401, [message |-> "Not authorized"]))
            /\ Finish
  /\ visited' = Append(visited, "protect")
  /\ UNCHANGED <<server, nodeEnv, req, body, parsed, err, calls, logs>>

GetMe ==
  /\ pc = "getMe"
  /\ sent' = Append(sent, Response(200, [user |-> "current"]))
  /\ Finish
  /\ visited' = Append(visited, "getMe")
  /\ UNCHANGED <<server, nodeEnv, req, body, parsed, err, calls, logs>>

Signup ==
  /\ pc = "signup"
  /\ \E status \in {201, 400} : sent' = Append(sent, Response(status, [auth |-> "signup"]))
  /\ Finish
  /\ visited' = Append(visited, "signup")
  /\ UNCHANGED <<server, nodeEnv, req, body, parsed, err, calls, logs>>

Signin ==
  /\ pc = "signin"
  /\ \E status \in {200, 401} : sent' = Append(sent, Response(status, [auth |-> "signin"]))
  /\ Finish
  /\ visited' = Append(visited, "signin")
  /\ UNCHANGED <<server, nodeEnv, req, body, parsed, err, calls, logs>>

----------------------------------------------------------------------------
(* Fallbacks *)

\* Mutant of ErrorBody: the message is hidden in production only
ErrorBodyUnlessProduction(env, error) ==
  IF env # "production"
    THEN [error |-> "Internal server error", message |-> error.message]
    ELSE [error |-> "Internal server error"]

\* The body of the error-handling middleware's answer; JSON drops a field
\* whose value is undefined.
ErrorBody(env, error) ==
  IF env = "development"
    THEN [error |-> "Internal server error", message |-> error.message]
    ELSE [error |-> "Internal server error"]

ErrorHandler ==
  /\ pc = "errorHandler"
  /\ sent' = Append(sent, Response(500, ErrorBody(nodeEnv, err)))
  /\ logs' = Append(logs, "Server Error")
  /\ Finish
  /\ visited' = Append(visited, "errorHandler")
  /\ UNCHANGED <<server, nodeEnv, req, body, parsed, err, calls>>

NotFound ==
  /\ pc = "notFound"
  /\ sent' = Append(sent, Response(404, [error |-> "Endpoint not found",
                                          availableEndpoints |-> AvailableEndpoints(server)]))
  /\ Finish
  /\ visited' = Append(visited, "notFound")
  /\ UNCHANGED <<server, nodeEnv, req, body, parsed, err, calls, logs>>

----------------------------------------------------------------------------

Next ==
  \/ Receive
  \/ Cors
  \/ ExpressJson
  \/ ExpressRaw
  \/ Health
  \/ CreatePaymentIntent
  \/ StripeResolve
  \/ StripeReject
  \/ Webhook
  \/ Protect
  \/ GetMe
  \/ Signup
  \/ Signin
  \/ ErrorHandler
  \/ NotFound
  \/ Complete

Spec == Init /\ [][Next]_vars

----------------------------------------------------------------------------
(* Properties *)

Range(s) == {s[i] : i \in 1..Len(s)}

Ran(handler) == handler \in Range(visited)

IsCreate == req.method = "POST" /\ req.path = <<"create-payment-intent">>

IsWebhook == req.method = "POST" /\ req.path = <<"webhook">>

IsMe == req.method = "GET" /\ req.path = <<"api", "auth", "me">>

\* A number (or numeric string) below the minimum: zero, negative and
\* fractional values included
BelowMinimum(v) == v.k \in {"number", "numstring"} /\ v.q < MinAmount * Scale

\* A finite number of at least the minimum
AtLeastMinimum(v) == v.k = "number" /\ v.q >= MinAmount * Scale

\* n is the integer nearest to v, halves going up
IsRoundOf(n, v) ==
  /\ n.k = "finite"
  /\ n.q % Scale = 0
  /\ 2 * (n.q - v.q) <= Scale
  /\ 2 * (v.q - n.q) < Scale

\* The currency the provider should see
ExpectedCurrency(c) ==
  CASE c.k = "undefined" -> <<"u", "s", "d">>
    [] c.k = "string" /\ c.s \in {<<"u", "s", "d">>, <<"U", "S", "D">>} -> <<"u", "s", "d">>
    [] c.k = "string" /\ c.s = <<"E", "u", "r">> -> <<"e", "u", "r">>
    [] OTHER -> <<"?">>

\* C1: a create-payment-intent request whose amount is below 50 (zero,
\* negative and fractional values included) never reaches the provider and
\* is answered with one HTTP 400.
C1_BelowMinimumRejected ==
  (Ran("createPaymentIntent") /\ BelowMinimum(body.amount)) =>
    /\ calls = <<>>
    /\ pc = "done"
    /\ Len(sent) = 1
    /\ sent[1].status = 400

C1_Witness ==
  /\ pc = "done"
  /\ Ran("createPaymentIntent")
  /\ body.amount = JNum(MinAmount * Scale - 2)
  /\ sent[1].status = 400
  /\ calls = <<>>

\* C2: every create-payment-intent request whose amount is 50 or more has
\* the provider invoked once the handler ran, with the integer round(amount),
\* the lower-cased currency ("usd" when none is given) and card as the only
\* payment method type.
C2_ProviderInvokedRounded ==
  (Ran("createPaymentIntent") /\ AtLeastMinimum(body.amount)) =>
    /\ Len(calls) = 1
    /\ IsRoundOf(calls[1].amount, body.amount)
    /\ calls[1].currency = ExpectedCurrency(body.currency)
    /\ calls[1].payment_method_types = <<"card">>

\* C3 (as claimed): a validation 400 says "Amount is required" exactly when
\* the amount is absent from the body (undefined, or null), and says "Amount must be at least
\* $0.50 (50 cents)" for every amount that is present and below 50.
C3_RequiredIffAbsent ==
  (Ran("createPaymentIntent") /\ pc = "done" /\ calls = <<>> /\ sent[1].status = 400) =>
    /\ (sent[1].body = AmountRequired) <=> (body.amount.k \in {"undefined", "null"})
    /\ (body.amount.k = "number" /\ BelowMinimum(body.amount)) =>
         sent[1].body = AmountTooSmall

\* C3 (amended): a validation 400 says "Amount is required" exactly when the
\* amount is absent or falsy (0, null, the empty string), and says "Amount
\* must be at least $0.50 (50 cents)" for every non-zero number below 50.
C3_RequiredIffFalsy ==
  (Ran("createPaymentIntent") /\ pc = "done" /\ calls = <<>> /\ sent[1].status = 400) =>
    /\ (sent[1].body = AmountRequired) <=>
         (body.amount.k \in {"undefined", "null", "emptystring"} \/ body.amount = JNum(0))
    /\ (body.amount.k = "number" /\ body.amount.q # 0 /\ BelowMinimum(body.amount)) =>
         sent[1].body = AmountTooSmall

C3_Witness ==
  /\ pc = "done"
  /\ Ran("createPaymentIntent")
  /\ body.amount = JNum(0)
  /\ sent = <<Response(400, AmountRequired)>>

\* The status the error taxonomy gives each provider error type
StatusOfType(type) ==
  CASE type = "StripeCardError" -> 400
    [] type = "StripeRateLimitError" -> 429
    [] type = "StripeInvalidRequestError" -> 400
    [] type = "StripeAPIError" -> 500
    [] type = "StripeConnectionError" -> 500
    [] type = "StripeAuthenticationError" -> 401
    [] OTHER -> 500

\* C4: when the provider call fails, the status follows from the error's
\* type alone (card 400 with the provider's message, rate limit 429, invalid
\* request 400, API 500, connection 500, authentication 401, anything else
\* 500 with the generic message), and the clientSecret body is sent only when
\* the call succeeded.
C4_ErrorTypeDecidesStatus ==
  (Ran("createPaymentIntent") /\ pc = "done") =>
    /\ (Len(calls) = 1 /\ err # NoErr) =>
         /\ Len(sent) = 1
         /\ sent[1].status = StatusOfType(err.type)
         /\ err.type = "StripeCardError" => sent[1].body = [error |-> err.message]
         /\ err.type \notin StripeErrorTypes =>
              sent[1].body = [error |-> "An unexpected error occurred. Please try again."]
    /\ \A i \in 1..Len(sent) :
         "clientSecret" \in DOMAIN sent[i].body =>
           Len(calls) = 1 /\ err = NoErr /\ sent[i].status = 200

C4_Witness ==
  /\ pc = "done"
  /\ Len(calls) = 1
  /\ err.type = "StripeAuthenticationError"
  /\ sent[1].status = 401

C6_GetMeBehindProtect ==
  /\ (pc = "getMe" \/ Ran("getMe")) => (Ran("protect") /\ req.credential)
  /\ (Ran("protect") /\ ~req.credential) =>
       /\ pc = "done"
       /\ ~Ran("getMe")
       /\ sent = <<Response(401, [message |-> "Not authorized"])>>
  /\ (Ran("signup") \/ Ran("signin")) => ~Ran("protect")
  /\ (server = "auth" /\ IsMe /\ pc = "done") => Ran("protect")

C6_Witness ==
  /\ pc = "done"
  /\ IsMe
  /\ visited = <<"cors", "expressJson", "protect", "getMe">>
  /\ sent[1].status = 200

\* C7 (as claimed): the error-handling middleware answers 500 and its body
\* carries the error's message under every NODE_ENV but production.
C7_MessageUnlessProduction ==
  (pc = "done" /\ Ran("errorHandler")) =>
    /\ Len(sent) = 1
    /\ sent[1].status = 500
    /\ IF nodeEnv = "production"
         THEN "message" \notin DOMAIN sent[1].body
         ELSE "message" \in DOMAIN sent[1].body /\ sent[1].body.message = err.message

\* C7 (amended): the error-handling middleware answers 500 and its body
\* carries the error's message only when NODE_ENV is "development"; under
\* production, test, or no NODE_ENV the message is left out.
C7_MessageOnlyInDevelopment ==
  (pc = "done" /\ Ran("errorHandler")) =>
    /\ Len(sent) = 1
    /\ sent[1].status = 500
    /\ IF nodeEnv = "development"
         THEN "message" \in DOMAIN sent[1].body /\ sent[1].body.message = err.message
         ELSE "message" \notin DOMAIN sent[1].body

C7_Witness ==
  /\ pc = "done"
  /\ Ran("errorHandler")
  /\ nodeEnv = "test"
  /\ sent = <<Response(500, [error |-> "Internal server error"])>>

\* C8: a create-payment-intent request calls the provider at most once and
\* gets exactly one response on every path: none is sent before the handler
\* finishes, one has been sent when it has, and the handler never stalls.
C8_OneCallOneResponse ==
  IsCreate =>
    /\ Len(calls) <= 1
    /\ Len(sent) <= 1
    /\ pc = "done" => Len(sent) = 1
    /\ pc \notin {"idle", "done"} => (sent = <<>> /\ ENABLED Next)

C8_Witness ==
  /\ pc = "done"
  /\ Ran("createPaymentIntent")
  /\ err = TypeError
  /\ calls = <<>>
  /\ Len(sent) = 1

\* C9: the body the webhook handler hands to constructEvent for an
\* application/json delivery is the raw bytes the provider sent.
C9_WebhookBodyIsRaw ==
  (pc = "webhook" /\ req.contentType = "application/json" /\ req.syntax = "valid") =>
    body.kind = "buffer"

\* C10: the 404 fallback answers exactly the requests that match no route
\* of the app, and no endpoint listed in the app's availableEndpoints is
\* answered with the 404.
C10_ListedEndpointsAreRouted ==
  (pc = "done" /\ ~Ran("errorHandler")) =>
    /\ (sent[1].status = 404) <=> (Matches(server, req.method, req.path) = {})
    /\ <<req.method, req.path>> \in Range(AvailableEndpoints(server)) =>
         sent[1].status # 404

====
